---- MODULE Spec2Model ----
(***************************************************************************)
(* Model of extensions/mumble/src/mumble-audio.ts: the Mumble audio packet *)
(* codec (readVarint, writeVarint, parseAudioPacket, createAudioPacket)    *)
(* and the MumbleAudioStream adapter that patches a socket's decodeAudio   *)
(* method, republishes parsed packets and sends audio through the socket.  *)
(*                                                                         *)
(* A Buffer is a sequence of bytes 0..255.  The source indexes buffers     *)
(* from 0, sequences here are indexed from 1: buffer[i] of the source is   *)
(* buffer[i + 1] here.  JavaScript's bitwise operators work on 32-bit      *)
(* integers; a 32-bit pattern is modelled as the set of its 1-bit          *)
(* positions (0..31) wherever the source ORs and shifts.                   *)
(***************************************************************************)
EXTENDS Integers, Sequences, FiniteSets, TLC

VARIABLES
    decodeAudio,          \* socket.decodeAudio: the handler now installed
    phase,                \* per adapter: "new", "live" (constructed), "destroyed"
    boundTarget,          \* per adapter: the function its .bind() result calls
    originalDecodeAudio,  \* per adapter: this.originalDecodeAudio
    isStopped,            \* per adapter: audioSubject has completed
    subState,             \* per adapter and subscriber: "none", "open", "completed"
    sequence,             \* per adapter: this.sequence
    calls,                \* the sendAudio calls so far, in call order
    writes,               \* the buffers handed to socket.write, in order
    priorHandler,         \* per adapter: socket.decodeAudio as it was found at construction
    last,                 \* the most recent operation and what it did
    job                   \* a call of the pure codec functions

vars == <<decodeAudio, phase, boundTarget, originalDecodeAudio, isStopped,
          subState, sequence, calls, writes, priorHandler, last, job>>

adapterVars == <<decodeAudio, phase, boundTarget, originalDecodeAudio,
                 isStopped, subState, sequence, calls, writes, priorHandler,
                 last>>

-----------------------------------------------------------------------------
(* Bounds of the exploration. *)

MaxSubs == 1
MaxSends == 2
MaxTail == 3

-----------------------------------------------------------------------------
(* Program constants. *)

\* AudioCodec.Opus
Opus == 4
\* 0x1fff: the low 13 bits of the Opus length field
LengthMask == 8191
\* 0x2000: the terminator bit of the Opus length field
TerminatorBit == 8192
\* UDPTunnel packet type
UDPTunnelType == 1

Null == [isNull |-> TRUE]

-----------------------------------------------------------------------------
(* 32-bit integer arithmetic of the bitwise operators. *)

RECURSIVE Pow2(_)
Pow2(n) == IF n = 0 THEN 1 ELSE 2 * Pow2(n - 1)

\* bit i of the non-negative integer n
BitOf(n, i) == (n \div Pow2(i)) % 2

\* (x << shift) for 0 <= x <= 0x7f, as the set of 1-bits of the 32-bit result:
\* the shift count is taken modulo 32 and bits shifted past bit 31 are lost
ShiftLeft(x, shift) ==
    { i + (shift % 32) : i \in { k \in 0..6 : BitOf(x, k) = 1 /\ k + (shift % 32) <= 31 } }

RECURSIVE SumPow2(_)
SumPow2(bits) ==
    IF bits = {} THEN 0
    ELSE LET b == CHOOSE x \in bits : TRUE
         IN Pow2(b) + SumPow2(bits \ {b})

\* the signed 32-bit integer whose 1-bits are `bits`
ToInt32(bits) ==
    IF 31 \in bits
    THEN (SumPow2(bits \ {31}) - 2147483647) - 1
    ELSE SumPow2(bits)

-----------------------------------------------------------------------------
(* The varint codec. *)

\* the loop of readVarint without the break on a byte whose high bit is 0
RECURSIVE readVarintLoopNoBreak(_, _, _, _, _)
readVarintLoopNoBreak(buffer, offset, value, bytesRead, shift) ==
    IF offset + bytesRead < Len(buffer)
    THEN LET byte == buffer[offset + bytesRead + 1]
             value2 == value \cup ShiftLeft(byte % 128, shift)
         IN readVarintLoopNoBreak(buffer, offset, value2, bytesRead + 1, shift + 7)
    ELSE [value |-> value, bytesRead |-> bytesRead]

RECURSIVE readVarintLoop(_, _, _, _, _)
readVarintLoop(buffer, offset, value, bytesRead, shift) ==
    IF offset + bytesRead < Len(buffer)
    THEN LET byte == buffer[offset + bytesRead + 1]
             value2 == value \cup ShiftLeft(byte % 128, shift)
         IN IF byte \div 128 = 0
            THEN [value |-> value2, bytesRead |-> bytesRead + 1]
            ELSE readVarintLoop(buffer, offset, value2, bytesRead + 1, shift + 7)
    ELSE [value |-> value, bytesRead |-> bytesRead]

readVarint(buffer, offset) ==
    LET r == readVarintLoop(buffer, offset, {}, 0, 0)
    IN [value |-> ToInt32(r.value), bytesRead |-> r.bytesRead]

\* value is a signed 32-bit integer here; the loop runs only for value > 0x7f,
\* where & 0x7f is % 128 and >>> 7 is \div 128
RECURSIVE writeVarint(_)
writeVarint(value) ==
    IF value > 127
    THEN <<(value % 128) + 128>> \o writeVarint(value \div 128)
    ELSE <<value % 128>>

\* writeVarint for a value of the unsigned 32-bit range, given as the set of
\* its 1-bits: value > 0x7f is "some bit above bit 6", value & 0x7f is the
\* bits 0..6, and value >>>= 7 moves every bit down by seven
RECURSIVE writeVarintBits(_)
writeVarintBits(bits) ==
    IF \E b \in bits : b >= 7
    THEN <<SumPow2({ b \in bits : b < 7 }) + 128>>
         \o writeVarintBits({ b - 7 : b \in { x \in bits : x >= 7 } })
    ELSE <<SumPow2(bits)>>

-----------------------------------------------------------------------------
(* The audio packet codec. *)

\* data.subarray(from, to) copied into a new Buffer
subarray(data, from, to) ==
    IF to <= from THEN <<>> ELSE SubSeq(data, from + 1, to)

\* parseAudioPacket with the length check off by one (>= for >)
parseAudioPacketOffByOne(data) ==
    IF Len(data) < 1 THEN Null
    ELSE
    LET header == data[1]
        codec == (header \div 32) % 8
        target == header % 32
        session == readVarint(data, 1)
        offset1 == 1 + session.bytesRead
        seq == readVarint(data, offset1)
        offset2 == offset1 + seq.bytesRead
    IN IF codec = Opus
       THEN LET opusHeader == readVarint(data, offset2)
                offset3 == offset2 + opusHeader.bytesRead
                isTerminator == (opusHeader.value \div TerminatorBit) % 2 # 0
                audioLength == opusHeader.value % (LengthMask + 1)
            IN IF offset3 + audioLength >= Len(data)
               THEN Null
               ELSE [source |-> session.value, codec |-> codec, target |-> target,
                     sequence |-> seq.value,
                     audioData |-> subarray(data, offset3, offset3 + audioLength),
                     isTerminator |-> isTerminator]
       ELSE [source |-> session.value, codec |-> codec, target |-> target,
             sequence |-> seq.value,
             audioData |-> subarray(data, offset2, Len(data)),
             isTerminator |-> FALSE]

\* parseAudioPacket that applies the Opus framing to every codec
parseAudioPacketAlwaysFramed(data) ==
    IF Len(data) < 1 THEN Null
    ELSE
    LET header == data[1]
        codec == (header \div 32) % 8
        target == header % 32
        session == readVarint(data, 1)
        offset1 == 1 + session.bytesRead
        seq == readVarint(data, offset1)
        offset2 == offset1 + seq.bytesRead
        opusHeader == readVarint(data, offset2)
        offset3 == offset2 + opusHeader.bytesRead
        isTerminator == (opusHeader.value \div TerminatorBit) % 2 # 0
        audioLength == opusHeader.value % (LengthMask + 1)
    IN IF offset3 + audioLength > Len(data)
       THEN Null
       ELSE [source |-> session.value, codec |-> codec, target |-> target,
             sequence |-> seq.value,
             audioData |-> subarray(data, offset3, offset3 + audioLength),
             isTerminator |-> isTerminator]

parseAudioPacket(data) ==
    IF Len(data) < 1 THEN Null
    ELSE
    LET header == data[1]
        codec == (header \div 32) % 8
        target == header % 32
        session == readVarint(data, 1)
        offset1 == 1 + session.bytesRead
        seq == readVarint(data, offset1)
        offset2 == offset1 + seq.bytesRead
    IN IF codec = Opus
       THEN LET opusHeader == readVarint(data, offset2)
                offset3 == offset2 + opusHeader.bytesRead
                isTerminator == (opusHeader.value \div TerminatorBit) % 2 # 0
                audioLength == opusHeader.value % (LengthMask + 1)
            IN IF offset3 + audioLength > Len(data)
               THEN Null
               ELSE [source |-> session.value, codec |-> codec, target |-> target,
                     sequence |-> seq.value,
                     audioData |-> subarray(data, offset3, offset3 + audioLength),
                     isTerminator |-> isTerminator]
       ELSE [source |-> session.value, codec |-> codec, target |-> target,
             sequence |-> seq.value,
             audioData |-> subarray(data, offset2, Len(data)),
             isTerminator |-> FALSE]

\* createAudioPacket that never sets the terminator bit
createAudioPacketNoTerminator(params) ==
    LET header == ((params.codec % 8) * 32) + (params.target % 32)
        sequenceVarint == writeVarint(params.sequence)
    IN IF params.codec = Opus
       THEN LET lengthValue == Len(params.audioData) % (LengthMask + 1)
                lengthVarint == writeVarint(lengthValue)
            IN <<header>> \o sequenceVarint \o lengthVarint \o params.audioData
       ELSE <<header>> \o sequenceVarint \o params.audioData

\* createAudioPacket that sets bit 0x1000 of the length field for a terminator
createAudioPacketTerminatorInLength(params) ==
    LET header == ((params.codec % 8) * 32) + (params.target % 32)
        sequenceVarint == writeVarint(params.sequence)
    IN IF params.codec = Opus
       THEN LET masked == Len(params.audioData) % (LengthMask + 1)
                lengthValue == IF params.isTerminator /\ BitOf(masked, 12) = 0
                               THEN masked + 4096
                               ELSE masked
                lengthVarint == writeVarint(lengthValue)
            IN <<header>> \o sequenceVarint \o lengthVarint \o params.audioData
       ELSE <<header>> \o sequenceVarint \o params.audioData

\* createAudioPacket that masks the target with 0x0f
createAudioPacketNarrowTarget(params) ==
    LET header == ((params.codec % 8) * 32) + (params.target % 16)
        sequenceVarint == writeVarint(params.sequence)
    IN IF params.codec = Opus
       THEN LET masked == Len(params.audioData) % (LengthMask + 1)
                lengthValue == IF params.isTerminator
                               THEN masked + TerminatorBit
                               ELSE masked
                lengthVarint == writeVarint(lengthValue)
            IN <<header>> \o sequenceVarint \o lengthVarint \o params.audioData
       ELSE <<header>> \o sequenceVarint \o params.audioData

createAudioPacket(params) ==
    LET header == ((params.codec % 8) * 32) + (params.target % 32)
        sequenceVarint == writeVarint(params.sequence)
    IN IF params.codec = Opus
       THEN LET masked == Len(params.audioData) % (LengthMask + 1)
                lengthValue == IF params.isTerminator
                               THEN masked + TerminatorBit
                               ELSE masked
                lengthVarint == writeVarint(lengthValue)
            IN <<header>> \o sequenceVarint \o lengthVarint \o params.audioData
       ELSE <<header>> \o sequenceVarint \o params.audioData

-----------------------------------------------------------------------------
(* Inputs of the pure codec functions. *)

Zeros(n) == [i \in 1..n |-> 0]

\* 0, one byte, the two-byte boundary, three bytes, the largest int32
SeqValues == {0, 1, 127, 128, 16384, 2147483647}

\* payloads: empty, short, one that starts like a length field with the
\* terminator bit (0x85 0x40), and the longest the 13-bit length can carry
Payloads == {<<>>, <<9>>, <<133, 64, 7>>, Zeros(LengthMask)}

CreateInputs ==
    [codec : 0..7, target : 0..31, sequence : SeqValues,
     audioData : Payloads, isTerminator : BOOLEAN]

NoParams ==
    [codec |-> 0, target |-> 0, sequence |-> 0, audioData |-> <<>>,
     isTerminator |-> FALSE]

TailBytes == {0, 5, 9, 64, 133}

RECURSIVE SeqsUpTo(_, _)
SeqsUpTo(S, n) ==
    IF n = 0 THEN {<<>>}
    ELSE LET shorter == SeqsUpTo(S, n - 1)
         IN shorter \cup { Append(t, b) : t \in shorter, b \in S }

\* raw buffers: a head (nothing; an Opus or a CELT header; an Opus header with
\* source 1 and sequence 2; the same with length field 5; an Opus header to
\* target 31 with a five-byte source varint), then up to MaxTail bytes, then
\* 0, 2 or 5 payload bytes
RawHeads ==
    {<<>>, <<128>>, <<0>>, <<128, 1, 2>>, <<128, 1, 2, 5>>,
     <<159, 255, 255, 255, 255, 15>>}

Fills == {<<>>, <<9, 9>>, <<9, 9, 9, 9, 9>>}

RawBuffers ==
    { h \o t \o f : h \in RawHeads, t \in SeqsUpTo(TailBytes, MaxTail), f \in Fills }

\* values for writeVarint, as sets of 1-bits: every combination of the bits
\* at the edges of the 7-bit groups and the two top bits, from 0 to 0xffffffff
VarintBitPositions == {0, 6, 7, 13, 14, 20, 21, 27, 28, 30, 31}
VarintInputs == SUBSET VarintBitPositions

\* buffers for readVarint: up to MaxTail bytes with the high bit set or not,
\* and runs of continuation bytes of five bytes and more
ScanBytes == {0, 1, 127, 128, 255}
ScanBuffers ==
    SeqsUpTo(ScanBytes, MaxTail)
    \cup {<<255, 255, 255, 255, 15>>, <<128, 128, 128, 128, 128, 1>>,
          <<255, 255, 255, 255, 255>>, <<129, 128, 128, 128, 128, 128, 3, 7>>}

JobIdle ==
    [kind |-> "idle", pc |-> "idle", params |-> NoParams, data |-> <<>>,
     packet |-> Null, bits |-> {}, offset |-> 0, varint |-> Null]

InitJobs ==
    { [kind |-> "build", pc |-> "create", params |-> p, data |-> <<>>,
       packet |-> Null, bits |-> {}, offset |-> 0, varint |-> Null]
         : p \in CreateInputs }
    \cup
    { [kind |-> "raw", pc |-> "parse", params |-> NoParams, data |-> d,
       packet |-> Null, bits |-> {}, offset |-> 0, varint |-> Null]
         : d \in RawBuffers }
    \cup
    { [kind |-> "varint", pc |-> "write", params |-> NoParams, data |-> <<>>,
       packet |-> Null, bits |-> v, offset |-> 0, varint |-> Null]
         : v \in VarintInputs }
    \cup
    UNION { { [kind |-> "scan", pc |-> "read", params |-> NoParams, data |-> d,
                packet |-> Null, bits |-> {}, offset |-> o, varint |-> Null]
                  : o \in 0..(Len(d) + 1) } : d \in ScanBuffers }

\* a caller builds a packet from its parameters
CallCreate ==
    /\ job.pc = "create"
    /\ job' = [job EXCEPT !.pc = "parse", !.data = createAudioPacket(job.params)]
    /\ UNCHANGED adapterVars

\* a caller parses a buffer: a raw one, or the packet just built
CallParse ==
    /\ job.pc = "parse"
    /\ job' = [job EXCEPT !.pc = "done", !.packet = parseAudioPacket(job.data)]
    /\ UNCHANGED adapterVars

\* a caller encodes a value
CallWriteVarint ==
    /\ job.pc = "write"
    /\ job' = [job EXCEPT !.pc = "read", !.data = writeVarintBits(job.bits)]
    /\ UNCHANGED adapterVars

\* a caller reads a varint at an offset of a buffer: one just encoded, or a
\* raw one
CallReadVarint ==
    /\ job.pc = "read"
    /\ job' = [job EXCEPT !.pc = "done",
                          !.varint = readVarint(job.data, job.offset)]
    /\ UNCHANGED adapterVars


-----------------------------------------------------------------------------
(* The socket's decodeAudio property and the functions it can hold. *)

\* two adapters on the one socket, constructed in either order
Adapters == {"A", "B"}
Subs == 1..MaxSubs

\* socket.decodeAudio is not a function
NotAFunction == [kind |-> "undefined", id |-> 0]
\* the socket's own decodeAudio method
Original == [kind |-> "original", id |-> 0]
\* a handler that some other party assigns to socket.decodeAudio
Foreign == [kind |-> "foreign", id |-> 0]
\* the function that adapter a's hookAudioDecoding gets from .bind(socketAny)
Bound(a) == [kind |-> "bound", id |-> a]
\* the arrow function that adapter a's hookAudioDecoding installs
Wrapper(a) == [kind |-> "wrapper", id |-> a]

\* audioSubject.next(packet): a completed Subject delivers nothing, an open one
\* hands the packet to every subscribed observer
SubjectNext(a, packet) ==
    IF isStopped[a] THEN <<>>
    ELSE <<[t |-> "next", adapter |-> a, packet |-> packet,
            to |-> { s \in Subs : subState[a][s] = "open" }]>>

\* the wrapper without its `if (packet)` test
WrapperPublishUnchecked(a, packet) == SubjectNext(a, packet)

\* what the wrapper does with the packet it parsed
WrapperPublish(a, packet) ==
    IF packet # Null THEN SubjectNext(a, packet) ELSE <<>>

\* a wrapper that calls the original handler first and publishes afterwards
RECURSIVE InvokeHandlerOriginalFirst(_, _)
InvokeHandlerOriginalFirst(h, data) ==
    CASE h.kind = "wrapper" ->
           (IF originalDecodeAudio[h.id] # Null
            THEN InvokeHandlerOriginalFirst(originalDecodeAudio[h.id], data)
            ELSE <<>>)
           \o WrapperPublish(h.id, parseAudioPacket(data))
      [] h.kind = "bound" -> InvokeHandlerOriginalFirst(boundTarget[h.id], data)
      [] OTHER -> <<[t |-> "call", handler |-> h, data |-> data]>>

\* Calling handler h with data: the trace of subscriber notifications and of
\* calls that reach a handler outside the adapters, in the order they happen.
RECURSIVE InvokeHandler(_, _)
InvokeHandler(h, data) ==
    CASE h.kind = "wrapper" ->
           WrapperPublish(h.id, parseAudioPacket(data))
           \o (IF originalDecodeAudio[h.id] # Null
               THEN InvokeHandler(originalDecodeAudio[h.id], data)
               ELSE <<>>)
      [] h.kind = "bound" -> InvokeHandler(boundTarget[h.id], data)
      [] OTHER -> <<[t |-> "call", handler |-> h, data |-> data]>>

-----------------------------------------------------------------------------
(* The adapter: construction, subscription, destruction. *)

\* the value hookAudioDecoding leaves in this.originalDecodeAudio
HookedOriginal(a) ==
    IF decodeAudio # NotAFunction THEN Bound(a) ELSE Null

\* new MumbleAudioStream(socket)
Construct(a) ==
    /\ phase[a] = "new"
    /\ phase' = [phase EXCEPT ![a] = "live"]
    /\ priorHandler' = [priorHandler EXCEPT ![a] = decodeAudio]
    /\ originalDecodeAudio' = [originalDecodeAudio EXCEPT ![a] = HookedOriginal(a)]
    /\ IF decodeAudio # NotAFunction
       THEN /\ boundTarget' = [boundTarget EXCEPT ![a] = decodeAudio]
            /\ decodeAudio' = Wrapper(a)
       ELSE UNCHANGED <<boundTarget, decodeAudio>>
    /\ last' = [op |-> "construct", adapter |-> a]
    /\ UNCHANGED <<isStopped, subState, sequence, calls, writes, job>>

\* adapter.fullAudioPacket.subscribe(observer): a completed Subject answers a
\* new subscription with the completion signal at once
Subscribe(a, s) ==
    /\ phase[a] # "new"
    /\ subState[a][s] = "none"
    /\ subState' = [subState EXCEPT ![a][s] =
                       IF isStopped[a] THEN "completed" ELSE "open"]
    /\ last' = [op |-> "subscribe", adapter |-> a, sub |-> s]
    /\ UNCHANGED <<decodeAudio, phase, boundTarget, originalDecodeAudio,
                   isStopped, sequence, calls, writes, priorHandler, job>>

\* what destroy() leaves in socket.decodeAudio
RestoredHandler(a) ==
    IF originalDecodeAudio[a] # Null THEN originalDecodeAudio[a] ELSE decodeAudio

\* audioSubject.complete() that was left out of destroy()
SubjectCompleteForgotten(a) ==
    [isStopped |-> isStopped[a], subs |-> subState[a]]

\* audioSubject.complete(): the first call stops the Subject and signals
\* completion to every subscribed observer, a later call does nothing
SubjectComplete(a) ==
    [isStopped |-> TRUE,
     subs |-> [s \in Subs |-> IF ~isStopped[a] /\ subState[a][s] = "open"
                              THEN "completed" ELSE subState[a][s]]]

\* adapter.destroy(); it can be called again on a destroyed adapter
Destroy(a) ==
    /\ phase[a] # "new"
    /\ phase' = [phase EXCEPT ![a] = "destroyed"]
    /\ isStopped' = [isStopped EXCEPT ![a] = SubjectComplete(a).isStopped]
    /\ subState' = [subState EXCEPT ![a] = SubjectComplete(a).subs]
    /\ decodeAudio' = RestoredHandler(a)
    /\ last' = [op |-> "destroy", adapter |-> a, again |-> phase[a] = "destroyed",
                handlerBefore |-> decodeAudio]
    /\ UNCHANGED <<boundTarget, originalDecodeAudio, sequence, calls, writes,
                   priorHandler, job>>

-----------------------------------------------------------------------------
(* The environment of the inbound path. *)

\* decodable CELT frame, decodable Opus frame (2 bytes, source 1, sequence 2),
\* Opus frame that claims 5 bytes and carries 1, empty frame
Frames == {<<0>>, <<128, 1, 2, 2, 9, 9>>, <<128, 1, 2, 5, 9>>, <<>>}

\* the socket receives a tunnel frame and calls its decodeAudio
InjectFrame(data) ==
    /\ decodeAudio # NotAFunction
    /\ last' = [op |-> "inject", via |-> decodeAudio, data |-> data,
                trace |-> InvokeHandler(decodeAudio, data)]
    /\ UNCHANGED <<decodeAudio, phase, boundTarget, originalDecodeAudio,
                   isStopped, subState, sequence, calls, writes, priorHandler, job>>

\* somebody who kept a reference to adapter a's wrapper calls it
InjectRetained(a, data) ==
    /\ originalDecodeAudio[a] # Null
    /\ decodeAudio # Wrapper(a)
    /\ last' = [op |-> "inject", via |-> Wrapper(a), data |-> data,
                trace |-> InvokeHandler(Wrapper(a), data)]
    /\ UNCHANGED <<decodeAudio, phase, boundTarget, originalDecodeAudio,
                   isStopped, subState, sequence, calls, writes, priorHandler, job>>

\* another party assigns its own handler to socket.decodeAudio; it does so
\* only while no adapter is in use
InstallForeign ==
    /\ \A a \in Adapters : phase[a] # "live"
    /\ decodeAudio # Foreign
    /\ decodeAudio' = Foreign
    /\ last' = [op |-> "install"]
    /\ UNCHANGED <<phase, boundTarget, originalDecodeAudio, isStopped, subState,
                   sequence, calls, writes, priorHandler, job>>


-----------------------------------------------------------------------------
(* The outbound path: sendAudio and the socket's write. *)

\* the arguments of sendAudio, by name: the defaults (Opus, target 0, no
\* terminator) with a short payload, an Opus payload one byte longer than the
\* 13-bit length can carry, and a CELT payload to the loopback target
SendInputs == {"short", "oversized", "celt"}

OversizedPayload == Zeros(LengthMask + 1)

SendInput(name) ==
    CASE name = "short" ->
           [audioData |-> <<7, 8>>, codec |-> Opus, target |-> 0,
            isTerminator |-> FALSE]
      [] name = "oversized" ->
           [audioData |-> OversizedPayload, codec |-> Opus, target |-> 1,
            isTerminator |-> TRUE]
      [] name = "celt" ->
           [audioData |-> <<9>>, codec |-> 0, target |-> 31,
            isTerminator |-> FALSE]

\* the errors the socket's write can reject with
Errors == {"EPIPE", "ECONNRESET"}

Pending == [state |-> "pending", error |-> "none"]
Resolved == [state |-> "resolved", error |-> "none"]
Rejected(e) == [state |-> "rejected", error |-> e]
Settlements == {Resolved} \cup { Rejected(e) : e \in Errors }

\* sendAudio with ++this.sequence for this.sequence++
sendAudioPacketPreIncrement(seq, input) ==
    createAudioPacket([codec |-> input.codec, target |-> input.target,
                       sequence |-> seq + 1, audioData |-> input.audioData,
                       isTerminator |-> input.isTerminator])

\* the packet sendAudio builds when the counter stands at seq
sendAudioPacket(seq, input) ==
    createAudioPacket([codec |-> input.codec, target |-> input.target,
                       sequence |-> seq, audioData |-> input.audioData,
                       isTerminator |-> input.isTerminator])

\* sendAudio that reads this.sequence and never advances it
NextSequenceStuck(seq) == seq

\* the counter after this.sequence++
NextSequence(seq) == seq + 1

\* the prefix with writeUInt32LE for writeUInt32BE
tunnelPrefixLittleEndian(packet) ==
    <<(UDPTunnelType \div 256) % 256, UDPTunnelType % 256,
      Len(packet) % 256, (Len(packet) \div 256) % 256,
      (Len(packet) \div 65536) % 256, (Len(packet) \div 16777216) % 256>>

\* Buffer.alloc(6) with writeUInt16BE(1, 0) and writeUInt32BE(packet.length, 2)
tunnelPrefix(packet) ==
    <<(UDPTunnelType \div 256) % 256, UDPTunnelType % 256,
      (Len(packet) \div 16777216) % 256, (Len(packet) \div 65536) % 256,
      (Len(packet) \div 256) % 256, Len(packet) % 256>>

\* the buffers sendAudio hands to socket.write, one per invocation of write
socketWrites(packet) == <<tunnelPrefix(packet) \o packet>>

\* sendAudio with the rejection of the write caught and dropped
awaitWriteSwallowed(settlement) == Resolved

\* sendAudio that gives up on its write once the adapter has been destroyed
awaitWriteCancelledByDestroy(settlement) ==
    IF \E a \in Adapters : phase[a] = "destroyed"
    THEN Rejected("destroyed")
    ELSE settlement

\* how the promise of sendAudio settles once the awaited write has settled
awaitWrite(settlement) == settlement

\* adapter.sendAudio(...) up to the await: the packet is built, the counter
\* advanced and the frame handed to socket.write
SendAudio(a, input) ==
    /\ phase[a] # "new"
    /\ Len(calls) < MaxSends
    /\ LET packet == sendAudioPacket(sequence[a], SendInput(input))
           call == Len(calls) + 1
       IN /\ writes' = writes \o [i \in 1..Len(socketWrites(packet)) |->
                                     [call |-> call, data |-> socketWrites(packet)[i]]]
          /\ calls' = Append(calls, [adapter |-> a, sequence |-> sequence[a],
                                     input |-> input, write |-> Pending,
                                     result |-> Pending])
          /\ last' = [op |-> "sendAudio", adapter |-> a, call |-> call]
    /\ sequence' = [sequence EXCEPT ![a] = NextSequence(sequence[a])]
    /\ UNCHANGED <<decodeAudio, phase, boundTarget, originalDecodeAudio,
                   isStopped, subState, priorHandler, job>>

\* the socket settles a pending write and the awaiting sendAudio resumes
SettleWrite(i, settlement) ==
    /\ i \in 1..Len(calls)
    /\ calls[i].write = Pending
    /\ calls' = [calls EXCEPT ![i].write = settlement,
                              ![i].result = awaitWrite(settlement)]
    /\ last' = [op |-> "settle", call |-> i]
    /\ UNCHANGED <<decodeAudio, phase, boundTarget, originalDecodeAudio,
                   isStopped, subState, sequence, writes, priorHandler, job>>

-----------------------------------------------------------------------------
(* Specifications. *)

InitAdapters ==
    /\ decodeAudio \in {Original, NotAFunction}
    /\ phase = [a \in Adapters |-> "new"]
    /\ boundTarget = [a \in Adapters |-> NotAFunction]
    /\ originalDecodeAudio = [a \in Adapters |-> Null]
    /\ isStopped = [a \in Adapters |-> FALSE]
    /\ subState = [a \in Adapters |-> [s \in Subs |-> "none"]]
    /\ sequence = [a \in Adapters |-> 0]
    /\ calls = <<>>
    /\ writes = <<>>
    /\ priorHandler = [a \in Adapters |-> NotAFunction]
    /\ last = [op |-> "none"]

\* The inbound path: adapters are constructed and destroyed on one socket,
\* observers subscribe, frames arrive.
Init ==
    /\ InitAdapters
    /\ job = JobIdle

Next ==
    \/ \E a \in Adapters : Construct(a)
    \/ \E a \in Adapters : Destroy(a)
    \/ \E a \in Adapters, s \in Subs : Subscribe(a, s)
    \/ \E d \in Frames : InjectFrame(d)
    \/ \E a \in Adapters, d \in Frames : InjectRetained(a, d)
    \/ InstallForeign

Spec == Init /\ [][Next]_vars

\* The outbound path of one adapter: it is constructed, audio is sent through
\* it, the socket settles the writes in any order, and it is destroyed at any
\* point in between.
Senders == {"A"}

NextSend ==
    \/ \E a \in Senders : Construct(a)
    \/ \E a \in Senders : Destroy(a)
    \/ \E a \in Senders, input \in SendInputs : SendAudio(a, input)
    \/ \E i \in 1..MaxSends, o \in Settlements : SettleWrite(i, o)

SpecSend == Init /\ [][NextSend]_vars

\* The pure codec functions applied to bounded inputs.
InitCodec ==
    /\ InitAdapters
    /\ decodeAudio = Original
    /\ job \in InitJobs

NextCodec ==
    \/ CallCreate
    \/ CallParse
    \/ CallWriteVarint
    \/ CallReadVarint

SpecCodec == InitCodec /\ [][NextCodec]_vars


-----------------------------------------------------------------------------
(* Claims about the packet codec, checked under SpecCodec. *)

\* the source (session) values a relaying server puts in front of the sequence
SourceValues == {0, 1, 300, 2147483647}

\* a built packet as it arrives at a receiver: the sender's session varint
\* inserted between the header byte and the sequence varint
WithSource(packet, source) ==
    <<packet[1]>> \o writeVarint(source) \o Tail(packet)

BuiltAndParsed == job.kind = "build" /\ job.pc = "done"

\* C1 as stated: parseAudioPacket(createAudioPacket(p)) is a packet whose
\* codec, target, sequence, audioData and isTerminator are those of p, for
\* every p whose payload fits the 13-bit length when the codec is Opus.
C1_RoundTrip ==
    (BuiltAndParsed
     /\ (job.params.codec = Opus => Len(job.params.audioData) <= LengthMask))
    => /\ job.packet # Null
       /\ job.packet.codec = job.params.codec
       /\ job.packet.target = job.params.target
       /\ job.packet.sequence = job.params.sequence
       /\ job.packet.audioData = job.params.audioData
       /\ job.packet.isTerminator = job.params.isTerminator

\* C1 amended: with a source varint inserted after the header byte, the built
\* packet parses to a packet with that source and with the codec, target,
\* sequence and audioData of the parameters; isTerminator is the parameter's
\* when the codec is Opus and FALSE for every other codec.
C1_RoundTripWithSource ==
    BuiltAndParsed
    => \A source \in SourceValues :
          LET packet == parseAudioPacket(WithSource(job.data, source))
          IN /\ packet # Null
             /\ packet.source = source
             /\ packet.codec = job.params.codec
             /\ packet.target = job.params.target
             /\ packet.sequence = job.params.sequence
             /\ packet.audioData = job.params.audioData
             /\ packet.isTerminator =
                   (job.params.codec = Opus /\ job.params.isTerminator)

\* an Opus packet with the terminator set, the longest payload and a
\* five-byte sequence has been built and parsed
C1_Witness ==
    /\ BuiltAndParsed
    /\ job.params.codec = Opus
    /\ job.params.isTerminator
    /\ Len(job.params.audioData) = LengthMask
    /\ job.params.sequence = 2147483647
    /\ job.params.target = 31

\* where the Opus length field of data starts, and the field itself
LengthFieldOffset(data) ==
    LET session == readVarint(data, 1)
    IN 1 + session.bytesRead + readVarint(data, 1 + session.bytesRead).bytesRead

LengthField(data) == readVarint(data, LengthFieldOffset(data))

\* C10: for an input whose header selects Opus, parseAudioPacket returns null
\* when the length field masked with 0x1fff exceeds the bytes that remain
\* after the length field, and otherwise a packet whose audioData is exactly
\* that many bytes starting right after the length field; [0x80, 1, 2, 5]
\* followed by fewer than 5 bytes yields null.
C10_TruncatedOpus ==
    (job.kind = "raw" /\ job.pc = "done" /\ Len(job.data) >= 1
     /\ (job.data[1] \div 32) % 8 = Opus)
    => LET field == LengthField(job.data)
           start == LengthFieldOffset(job.data) + field.bytesRead
           length == field.value % (LengthMask + 1)
           remaining == Len(job.data) - start
       IN /\ length > remaining => job.packet = Null
          /\ length <= remaining =>
                /\ job.packet # Null
                /\ Len(job.packet.audioData) = length
                /\ \A i \in 1..length : job.packet.audioData[i] = job.data[start + i]
          /\ (Len(job.data) >= 4 /\ SubSeq(job.data, 1, 4) = <<128, 1, 2, 5>>
              /\ Len(job.data) < 9) => job.packet = Null

\* the example header followed by two of the five bytes it claims
C10_Witness ==
    /\ job.kind = "raw" /\ job.pc = "done"
    /\ job.data = <<128, 1, 2, 5, 9, 9>>
    /\ job.packet = Null


-----------------------------------------------------------------------------
(* Claims about the inbound path, checked under Spec. *)

\* the notifications of adapter a's subscribers in a trace
NextEvents(trace, a) ==
    { i \in 1..Len(trace) : trace[i].t = "next" /\ trace[i].adapter = a }

\* the calls in a trace that reached a handler outside the adapters
CallEvents(trace) == { i \in 1..Len(trace) : trace[i].t = "call" }

\* the adapters whose wrapper runs when handler h is called
RECURSIVE Offered(_)
Offered(h) ==
    CASE h.kind = "wrapper" ->
           {h.id} \cup (IF originalDecodeAudio[h.id] # Null
                        THEN Offered(originalDecodeAudio[h.id]) ELSE {})
      [] h.kind = "bound" -> Offered(boundTarget[h.id])
      [] OTHER -> {}

\* C2 as stated: while an adapter is constructed and not destroyed, every
\* decodable frame injected into socket.decodeAudio gives exactly one packet
\* event on that adapter's subscription and exactly one call of the original
\* handler, with the same bytes.
C2_DualDelivery ==
    \A a \in Adapters :
       (/\ phase[a] = "live"
        /\ last.op = "inject"
        /\ last.via = decodeAudio
        /\ parseAudioPacket(last.data) # Null)
       => /\ Cardinality(NextEvents(last.trace, a)) = 1
          /\ Cardinality(CallEvents(last.trace)) = 1
          /\ \A i \in CallEvents(last.trace) : last.trace[i].data = last.data

\* C3 as stated: right after an adapter's first destroy(), socket.decodeAudio
\* is the very function that was there just before the adapter was constructed.
C3_RestoredIdentical ==
    (last.op = "destroy" /\ ~last.again)
    => decodeAudio = priorHandler[last.adapter]

\* C4 as stated: a destroy() on an adapter that was destroyed before leaves
\* socket.decodeAudio as it was when that destroy() was called.
C4_SecondDestroyNoOp ==
    (last.op = "destroy" /\ last.again)
    => decodeAudio = last.handlerBefore

\* C7: when a frame that parseAudioPacket rejects is offered to adapters, none
\* of their subscribers is notified, no subscription is closed, and the frame
\* still reaches the handler behind the adapters exactly once, unchanged.
C7_DecodeFailureLocal ==
    [][ (/\ last'.op = "inject"
         /\ last' # last
         /\ parseAudioPacket(last'.data) = Null
         /\ Offered(last'.via) # {})
        => /\ \A a \in Adapters : NextEvents(last'.trace, a) = {}
           /\ Cardinality(CallEvents(last'.trace)) = 1
           /\ \A i \in CallEvents(last'.trace) : last'.trace[i].data = last'.data
           /\ subState' = subState
           /\ isStopped' = isStopped ]_vars

\* a truncated Opus frame has gone through the installed wrapper of a live
\* adapter that has an open subscription
C7_Witness ==
    /\ last.op = "inject"
    /\ last.data = <<128, 1, 2, 5, 9>>
    /\ last.via = decodeAudio
    /\ \E a \in Adapters :
          /\ decodeAudio = Wrapper(a)
          /\ phase[a] = "live"
          /\ subState[a][1] = "open"

\* C8: once destroy() has been called on an adapter, none of its
\* subscriptions is open any more: those open at the time got the completion
\* signal, a subscription made afterwards gets only the completion signal,
\* and no frame injected afterwards, through socket.decodeAudio or through a
\* retained wrapper, notifies any of its subscribers.
C8_ClosedAfterDestroy ==
    /\ \A a \in Adapters :
          phase[a] = "destroyed" =>
             /\ isStopped[a]
             /\ \A s \in Subs : subState[a][s] \in {"none", "completed"}
    /\ (last.op = "subscribe" /\ phase[last.adapter] = "destroyed")
       => subState[last.adapter][last.sub] = "completed"
    /\ last.op = "inject"
       => \A a \in Adapters :
             phase[a] = "destroyed" => NextEvents(last.trace, a) = {}

\* a decodable frame has gone through the retained wrapper of a destroyed
\* adapter whose subscriber has been completed
C8_Witness ==
    /\ last.op = "inject"
    /\ parseAudioPacket(last.data) # Null
    /\ \E a \in Adapters :
          /\ last.via = Wrapper(a)
          /\ phase[a] = "destroyed"
          /\ subState[a][1] = "completed"


-----------------------------------------------------------------------------
(* Claims about the outbound path, checked under SpecSend. *)

\* the writes that call i made
WritesOf(i) == { j \in 1..Len(writes) : writes[j].call = i }

\* the calls of adapter a before call i
EarlierCalls(a, i) == { k \in 1..(i - 1) : calls[k].adapter = a }

\* the size of the tunnel prefix in front of the audio packet
PrefixLength == 6

\* the sequence number carried by a written frame: the varint after the
\* prefix and the packet's header byte
FrameSequence(frame) == readVarint(frame, PrefixLength + 1).value

\* the Opus length field carried by a written frame
FrameLengthField(frame) ==
    LET seq == readVarint(frame, PrefixLength + 1)
    IN readVarint(frame, PrefixLength + 1 + seq.bytesRead).value

Oversized(i) ==
    /\ SendInput(calls[i].input).codec = Opus
    /\ Len(SendInput(calls[i].input).audioData) > LengthMask

\* C5 as stated: a sendAudio call with an Opus payload longer than 0x1fff
\* bytes fails with PayloadTooLarge, and no frame is written whose length
\* field holds the payload length cut to 13 bits.
C5_PayloadTooLarge ==
    \A i \in 1..Len(calls) :
       Oversized(i) =>
          /\ calls[i].result = Rejected("PayloadTooLarge")
          /\ \A j \in WritesOf(i) :
                FrameLengthField(writes[j].data) % (LengthMask + 1)
                   # Len(SendInput(calls[i].input).audioData) % (LengthMask + 1)

\* C6: an adapter's k-th sendAudio call (from 0) is given sequence number k
\* and writes a frame that carries k; the counter equals the number of calls
\* made so far, whatever became of their writes and whether or not the
\* adapter has been destroyed.
C6_SequenceCounter ==
    /\ \A a \in Adapters :
          sequence[a] = Cardinality({ i \in 1..Len(calls) : calls[i].adapter = a })
    /\ \A i \in 1..Len(calls) :
          /\ calls[i].sequence = Cardinality(EarlierCalls(calls[i].adapter, i))
          /\ \A j \in WritesOf(i) : FrameSequence(writes[j].data) = calls[i].sequence

\* the adapter has sent twice, the first write was rejected, and the adapter
\* was destroyed
C6_Witness ==
    /\ Len(calls) = 2
    /\ calls[1].adapter = "A" /\ calls[2].adapter = "A"
    /\ calls[1].write.state = "rejected"
    /\ phase["A"] = "destroyed"
    /\ sequence["A"] = 2

\* C9: every sendAudio call invokes socket.write exactly once, at no point
\* more; it is pending while the write is pending, rejects with the write's
\* error when the write rejects and resolves when the write resolves.
C9_WriteFailure ==
    \A i \in 1..Len(calls) :
       /\ Cardinality(WritesOf(i)) = 1
       /\ calls[i].result = calls[i].write

\* a write has been rejected with one error and another with the other
C9_Witness ==
    /\ Len(calls) = 2
    /\ calls[1].write = Rejected("EPIPE")
    /\ calls[2].write = Rejected("ECONNRESET")
    /\ Len(writes) = 2


\* the big-endian number in bytes from..to of a frame
RECURSIVE BigEndian(_, _, _)
BigEndian(frame, from, to) ==
    IF to < from THEN 0
    ELSE BigEndian(frame, from, to - 1) * 256 + frame[to]

\* the parameters createAudioPacket gets for call i
ParamsOf(i) ==
    [codec |-> SendInput(calls[i].input).codec,
     target |-> SendInput(calls[i].input).target,
     sequence |-> calls[i].sequence,
     audioData |-> SendInput(calls[i].input).audioData,
     isTerminator |-> SendInput(calls[i].input).isTerminator]

\* C11: every buffer handed to socket.write is the bytes 0x00 0x01, then the
\* length L of the rest as four big-endian bytes, then exactly L bytes that
\* are createAudioPacket's output for the call's codec, target, payload,
\* terminator flag and assigned sequence number.
C11_OutboundEnvelope ==
    \A j \in 1..Len(writes) :
       LET frame == writes[j].data
       IN /\ Len(frame) >= PrefixLength
          /\ frame[1] = 0
          /\ frame[2] = 1
          /\ BigEndian(frame, 3, PrefixLength) = Len(frame) - PrefixLength
          /\ SubSeq(frame, PrefixLength + 1, Len(frame))
                = createAudioPacket(ParamsOf(writes[j].call))

\* a frame of more than 8192 bytes (length bytes 0x00 0x00 0x20 0x04) has
\* been written after a CELT frame
C11_Witness ==
    /\ Len(writes) = 2
    /\ calls[1].input = "celt"
    /\ calls[2].input = "oversized"
    /\ SubSeq(writes[2].data, 3, 6) = <<0, 0, 32, 4>>

\* C13: whatever the order in which the socket settles the writes of calls in
\* flight, the j-th buffer handed to socket.write is that of the j-th call,
\* and the frames of one adapter carry 0, 1, 2, ... in call order: none
\* shared, none skipped.
C13_ConcurrentSends ==
    /\ Len(writes) = Len(calls)
    /\ \A j \in 1..Len(writes) :
          /\ writes[j].call = j
          /\ FrameSequence(writes[j].data)
                = Cardinality({ k \in 1..(j - 1) :
                                   calls[writes[k].call].adapter
                                      = calls[writes[j].call].adapter })

\* two calls were in flight together and the second was settled first
C13_Witness ==
    /\ Len(calls) = 2
    /\ calls[1].write = Pending
    /\ calls[2].write = Rejected("EPIPE")
    /\ last.op = "settle"

\* C15: destroy() changes neither the calls in flight, nor the frames
\* written, nor the sequence counter; a write settled after destroy() settles
\* its sendAudio call with the write's own outcome and leaves the frames as
\* they were written.
C15_DestroyKeepsSends ==
    [][ /\ last'.op = "destroy"
           => (calls' = calls /\ writes' = writes /\ sequence' = sequence)
        /\ (last'.op = "settle" /\ last' # last)
           => /\ writes' = writes
              /\ sequence' = sequence
              /\ calls'[last'.call].result = calls'[last'.call].write
              /\ calls'[last'.call].result \in Settlements ]_vars

\* the adapter is destroyed, and after that the socket has rejected the write
\* of call 1 while call 2 is still in flight
C15_Witness ==
    /\ phase["A"] = "destroyed"
    /\ Len(calls) = 2
    /\ calls[1].result = Rejected("ECONNRESET")
    /\ calls[2].result = Pending
    /\ last.op = "settle"
    /\ last.call = 1


-----------------------------------------------------------------------------
(* Claims about the varint codec, checked under SpecCodec. *)

\* the set of 1-bits of a non-negative integer below 2^31
BitsOf(n) == { i \in 0..30 : BitOf(n, i) = 1 }

\* C12: for every v of the unsigned 32-bit range, readVarint(writeVarint(v), 0)
\* returns the value v (a non-negative number with the 1-bits of v) and
\* bytesRead equal to the length of writeVarint(v).
C12_VarintRoundTrip ==
    (job.kind = "varint" /\ job.pc = "done")
    => /\ job.varint.bytesRead = Len(job.data)
       /\ job.varint.value >= 0
       /\ BitsOf(job.varint.value) = job.bits

\* the value of a varint of at most four bytes, least significant group first
RECURSIVE GroupsValue(_)
GroupsValue(bytes) ==
    IF bytes = <<>> THEN 0
    ELSE (bytes[1] % 128) + 128 * GroupsValue(Tail(bytes))

\* how many bytes a reader takes from offset on: up to and including the
\* first byte below 0x80, or all that remain
RECURSIVE BytesTaken(_, _)
BytesTaken(buffer, offset) ==
    IF offset >= Len(buffer) THEN 0
    ELSE IF buffer[offset + 1] < 128 THEN 1
    ELSE 1 + BytesTaken(buffer, offset + 1)

\* the varint of a raw buffer is cut off: the buffer ends on a continuation
\* byte
CutOff(data) == Len(data) >= 2 /\ data[Len(data)] >= 128

-----------------------------------------------------------------------------
(* Claims about the packet fields, checked under SpecCodec. *)

RawParsed == job.kind = "raw" /\ job.pc = "done" /\ Len(job.data) >= 1

HeaderCodec(data) == (data[1] \div 32) % 8
HeaderTarget(data) == data[1] % 32

\* the bytes of the varint that starts at offset of data
VarintAt(data, offset) ==
    SubSeq(data, offset + 1, offset + BytesTaken(data, offset))

\* C16: for an Opus payload of k <= 0x1fff bytes createAudioPacket writes,
\* after the header and the sequence varint, the varint of k with bit 0x2000
\* added when isTerminator is true and of k alone when it is false, then the
\* k bytes; parseAudioPacket of a well-formed Opus packet returns isTerminator
\* equal to bit 0x2000 of the length field and audioData of the length in its
\* low 13 bits.
C16_TerminatorBit ==
    /\ (BuiltAndParsed /\ job.params.codec = Opus)
       => LET k == Len(job.params.audioData)
              start == 1 + Len(writeVarint(job.params.sequence))
              field == GroupsValue(VarintAt(job.data, start))
          IN /\ field % (LengthMask + 1) = k
             /\ (field \div TerminatorBit) % 2 = 1 <=> job.params.isTerminator
             /\ field \div (2 * TerminatorBit) = 0
             /\ Len(job.data) = start + BytesTaken(job.data, start) + k
             /\ \A source \in SourceValues :
                   LET packet == parseAudioPacket(WithSource(job.data, source))
                   IN /\ packet # Null
                      /\ packet.isTerminator = job.params.isTerminator
                      /\ Len(packet.audioData) = k
    /\ (RawParsed /\ HeaderCodec(job.data) = Opus /\ job.packet # Null
        /\ BytesTaken(job.data, LengthFieldOffset(job.data)) <= 4)
       => LET field == GroupsValue(VarintAt(job.data, LengthFieldOffset(job.data)))
          IN /\ job.packet.isTerminator <=> (field \div TerminatorBit) % 2 = 1
             /\ Len(job.packet.audioData) = field % (LengthMask + 1)

\* a terminator with no payload has been built: the length field is 0x2000
\* alone (varint 0x80 0x40)
C16_Witness ==
    /\ BuiltAndParsed
    /\ job.params.isTerminator
    /\ job.data = <<128, 0, 128, 64>>

\* C17 as stated: the first byte of createAudioPacket's output is
\* (codec << 5) | target, and parseAudioPacket of any input that starts with
\* that byte returns a packet with that codec and target.
C17_HeaderPacking ==
    /\ BuiltAndParsed
       => job.data[1] = job.params.codec * 32 + job.params.target
    /\ (BuiltAndParsed \/ RawParsed)
       => /\ job.packet # Null
          /\ job.packet.codec = HeaderCodec(job.data)
          /\ job.packet.target = HeaderTarget(job.data)

\* C17 amended: the first byte of createAudioPacket's output is
\* (codec << 5) | target; parseAudioPacket of an input that starts with that
\* byte returns either a packet with that codec and target or, only when the
\* codec is Opus, null.
C17_HeaderPackingWhenParsed ==
    /\ BuiltAndParsed
       => job.data[1] = job.params.codec * 32 + job.params.target
    /\ (BuiltAndParsed \/ RawParsed)
       => /\ job.packet = Null => HeaderCodec(job.data) = Opus
          /\ job.packet # Null
             => /\ job.packet.codec = HeaderCodec(job.data)
                /\ job.packet.target = HeaderTarget(job.data)

\* codec 7 to target 31 has been built (header 0xff) and parsed
C17_Witness ==
    /\ BuiltAndParsed
    /\ job.params.codec = 7
    /\ job.params.target = 31
    /\ job.data[1] = 255
    /\ job.packet # Null
    /\ job.packet.codec = 7
    /\ job.packet.target = 31

\* C18: for a non-empty input whose header codec is not Opus,
\* parseAudioPacket returns a packet; its audioData is every byte after the
\* source and sequence varints (none if the input ends there) and its
\* isTerminator is false.
C18_NonOpusDecode ==
    ((BuiltAndParsed \/ RawParsed) /\ HeaderCodec(job.data) # Opus)
    => /\ job.packet # Null
       /\ job.packet.audioData
             = SubSeq(job.data, LengthFieldOffset(job.data) + 1, Len(job.data))
       /\ job.packet.isTerminator = FALSE

\* a CELT input whose source varint looks like an Opus length field with the
\* terminator bit has been parsed: the bytes after the two varints are the
\* payload
C18_Witness ==
    /\ RawParsed
    /\ job.data = <<0, 133, 64, 9, 9, 9>>
    /\ job.packet # Null
    /\ job.packet.source = 8197
    /\ job.packet.sequence = 9
    /\ job.packet.audioData = <<9, 9>>
    /\ job.packet.isTerminator = FALSE


-----------------------------------------------------------------------------
(* Claims about stacked adapters and the order of delivery, checked under
   Spec. *)

\* C14: when a frame is injected into a handler behind which an adapter's
\* wrapper runs, the adapter's subscribers are notified within that very call
\* (the notification of a decodable frame is in the call's own trace, with
\* the decoded packet, for every open subscription) and before the
\* transport's original handler is invoked for the frame.
C14_InterceptionOrder ==
    last.op = "inject"
    => \A a \in Offered(last.via) :
          /\ \A i \in NextEvents(last.trace, a) :
                \A j \in CallEvents(last.trace) : i < j
          /\ CallEvents(last.trace) # {}
          /\ (parseAudioPacket(last.data) # Null /\ ~isStopped[a])
             => /\ NextEvents(last.trace, a) # {}
                /\ \A i \in NextEvents(last.trace, a) :
                      /\ last.trace[i].packet = parseAudioPacket(last.data)
                      /\ last.trace[i].to = { s \in Subs : subState[a][s] = "open" }

\* a decodable frame has gone through two stacked live adapters, each with an
\* open subscription: B's subscriber, then A's, then the original handler
C14_Witness ==
    /\ last.op = "inject"
    /\ last.data = <<128, 1, 2, 2, 9, 9>>
    /\ last.via = Wrapper("B")
    /\ decodeAudio = Wrapper("B")
    /\ priorHandler["B"] = Wrapper("A")
    /\ Len(last.trace) = 3
    /\ last.trace[1].t = "next" /\ last.trace[1].adapter = "B" /\ last.trace[1].to = {1}
    /\ last.trace[2].t = "next" /\ last.trace[2].adapter = "A" /\ last.trace[2].to = {1}
    /\ last.trace[3] = [t |-> "call", handler |-> Original, data |-> last.data]

\* adapter b was constructed on the transport while adapter a's wrapper was
\* the installed handler
Stacked(a, b) ==
    /\ a # b
    /\ phase[a] # "new"
    /\ phase[b] # "new"
    /\ priorHandler[b] = Wrapper(a)

\* C20 as stated: with b constructed on top of a, (1) a frame that decodes,
\* injected into socket.decodeAudio, gives each of the two that is not
\* destroyed exactly one event, (2) every injected frame reaches the original
\* handler exactly once, and (3) right after the destroy() that leaves both
\* destroyed, socket.decodeAudio is the handler from before a was constructed
\* and no adapter's wrapper runs behind it.
C20_TwoAdapters ==
    \A a, b \in Adapters :
       Stacked(a, b)
       => /\ (last.op = "inject" /\ last.via = decodeAudio)
             => /\ Cardinality(CallEvents(last.trace)) = 1
                /\ parseAudioPacket(last.data) # Null
                   => \A x \in {a, b} :
                         phase[x] = "live"
                         => Cardinality(NextEvents(last.trace, x)) = 1
          /\ (last.op = "destroy" /\ phase[a] = "destroyed" /\ phase[b] = "destroyed")
             => /\ decodeAudio = priorHandler[a]
                /\ Offered(decodeAudio) = {}


====
